---- MODULE Spec2Model ----
(***************************************************************************)
(* A model of the in-memory file system of src/main.py: the classes File,  *)
(* Folder and FileSystem.  Python objects live in a heap indexed by object *)
(* identity; a Folder's dict is an insertion-ordered sequence of           *)
(* (key, object) pairs; strings are sequences of tokens, so strip, split,  *)
(* startswith, splitlines and join are computed as Python computes them.   *)
(***************************************************************************)
EXTENDS Integers, Sequences, FiniteSets, TLC

\* heap: the objects, by identity.  cur: FileSystem.current_folder.
\* last: the call made last, with what it raised or returned.
\* steps: the number of calls made so far.
VARIABLES heap, cur, last, steps

vars == <<heap, cur, last, steps>>

(* ------------------------------ bounds -------------------------------- *)

\* Number of object identities (the root included) a run may allocate.
MaxObj == 4
\* Number of calls in a run.
MaxOps == 3
\* Longest path argument, in tokens ("/", a name, or "..").
MaxPathLen == 3
\* Longest file content argument, in characters.
MaxContentLen == 1

(* ------------------------------ strings ------------------------------- *)

SLASH == "/"
DOTDOT == ".."
LF == "\n"

SeqsUpTo(S, n) == UNION {[1..k -> S] : k \in 0..n}

\* A path string: tokens "/", "a", "b", ".."; two names are never adjacent,
\* so each sequence stands for exactly one Python string.
PathTokens == {SLASH, "a", "b", DOTDOT}
Paths == {p \in SeqsUpTo(PathTokens, MaxPathLen) :
            \A i \in 1..(Len(p) - 1) : p[i] = SLASH \/ p[i + 1] = SLASH}

\* Names handed over as a name argument (create_folder's name, rename's new_name).
Names == {<<"a">>, <<"b">>}

\* File contents: characters "x" and the line break.
Contents == SeqsUpTo({"x", LF}, MaxContentLen)

ROOT_NAME == <<"root">>

\* The value None.
None == <<"None">>

RECURSIVE LStrip(_)
LStrip(s) == IF s # <<>> /\ Head(s) = SLASH THEN LStrip(Tail(s)) ELSE s

RECURSIVE RStrip(_)
RStrip(s) ==
  IF s # <<>> /\ s[Len(s)] = SLASH THEN RStrip(SubSeq(s, 1, Len(s) - 1)) ELSE s

\* str.strip("/")
Strip(s) == RStrip(LStrip(s))

FirstAt(s, c) == CHOOSE i \in 1..Len(s) : s[i] = c /\ \A j \in 1..(i - 1) : s[j] # c

\* str.split("/"): never empty, "" splits to [""].
RECURSIVE Split(_)
Split(s) ==
  IF \E i \in 1..Len(s) : s[i] = SLASH
    THEN LET i == FirstAt(s, SLASH)
         IN  <<SubSeq(s, 1, i - 1)>> \o Split(SubSeq(s, i + 1, Len(s)))
    ELSE <<s>>

\* str.startswith("/")
StartsWithSlash(s) == s # <<>> /\ s[1] = SLASH

\* path.strip("/").split("/")
Parts(path) == Split(Strip(path))

\* list.pop() on a non-empty list: the list without its last element.
Front(l) == SubSeq(l, 1, Len(l) - 1)
Last(l) == l[Len(l)]

\* str.splitlines() over the characters "x" and "\n".
RECURSIVE SplitLines(_)
SplitLines(s) ==
  IF s = <<>> THEN <<>>
  ELSE IF \E i \in 1..Len(s) : s[i] = LF
    THEN LET i == FirstAt(s, LF)
         IN  <<SubSeq(s, 1, i - 1)>> \o SplitLines(SubSeq(s, i + 1, Len(s)))
    ELSE <<s>>

\* "\n".join(lines)
RECURSIVE Join(_)
Join(lines) ==
  IF lines = <<>> THEN <<>>
  ELSE IF Len(lines) = 1 THEN lines[1]
  ELSE lines[1] \o <<LF>> \o Join(Tail(lines))

(* ------------------------------- heap --------------------------------- *)

Ids == 1..MaxObj
Root == 1

NoObj == [kind |-> "none", name |-> <<>>, data |-> <<>>, contents |-> <<>>]

\* File.__init__
NewFile(name, data) ==
  [kind |-> "File", name |-> name, data |-> SplitLines(data), contents |-> <<>>]

\* Folder.__init__
NewFolder(name) ==
  [kind |-> "Folder", name |-> name, data |-> <<>>, contents |-> <<>>]

\* File.read
Read(f) == Join(f.data)

\* dict operations on an insertion-ordered sequence of [k, v] entries.
HasKey(c, k) == \E i \in 1..Len(c) : c[i].k = k
Lookup(c, k) == c[CHOOSE i \in 1..Len(c) : c[i].k = k].v
Values(c) == {c[i].v : i \in 1..Len(c)}
Keys(c) == {c[i].k : i \in 1..Len(c)}
DictSet(c, k, v) ==
  IF HasKey(c, k)
    THEN [i \in 1..Len(c) |-> IF c[i].k = k THEN [k |-> k, v |-> v] ELSE c[i]]
    ELSE Append(c, [k |-> k, v |-> v])
DictDel(c, k) == SelectSeq(c, LAMBDA e : e.k # k)

\* Folder.add: contents[item.name] = item
Add(h, folder, item) ==
  [h EXCEPT ![folder].contents = DictSet(@, h[item].name, item)]

\* Folder.remove
Remove(h, folder, name) ==
  [h EXCEPT ![folder].contents = DictDel(@, name)]

Free(h) == {i \in Ids : h[i].kind = "none"}
NewId(h) == IF Free(h) = {} THEN 0 ELSE CHOOSE i \in Free(h) : \A j \in Free(h) : i <= j

IsFolder(h, i) == h[i].kind = "Folder"

(* --------------------------- path walking ----------------------------- *)

ITEM_NOT_FOUND == "Item not found"

\* The loop "for part in parts: folder = folder.get(part); if not
\* isinstance(folder, Folder): raise ValueError(bad)".
RECURSIVE Walk(_, _, _, _)
Walk(h, folder, parts, bad) ==
  IF parts = <<>> THEN [err |-> "", folder |-> folder]
  ELSE IF ~HasKey(h[folder].contents, Head(parts))
    THEN [err |-> ITEM_NOT_FOUND, folder |-> folder]
  ELSE LET nxt == Lookup(h[folder].contents, Head(parts))
       IN  IF ~IsFolder(h, nxt) THEN [err |-> bad, folder |-> folder]
           ELSE Walk(h, nxt, Tail(parts), bad)

\* FileSystem.find_parent
find_parent(h, folder) ==
  LET rc == h[Root].contents
      hits == {i \in 1..Len(rc) :
                 IsFolder(h, rc[i].v) /\ folder \in Values(h[rc[i].v].contents)}
  IN  IF hits # {} THEN rc[CHOOSE i \in hits : \A j \in hits : i <= j].v ELSE Root

(* ---------------------------- operations ----------------------------- *)

\* The outcome of one call: the exception raised ("" when none), the value
\* returned, and the heap and cursor the call leaves behind.
Ok(h, c, v) == [err |-> "", val |-> v, heap |-> h, cur |-> c]
Fail(h, c, e) == [err |-> e, val |-> None, heap |-> h, cur |-> c]

AT_ROOT == "Already at the root directory."
CD_INVALID == "Invalid path: does not exist or is not a folder."
ALREADY_EXISTS == "A file or folder with the name already exists."
NO_FOLDER == "Folder does not exist."
FILE_EXISTS == "File already exists."
INVALID_PATH == "Invalid path"
NOT_A_FILE == "Specified path is not a file"
INVALID_SRC == "Invalid source path"
INVALID_DST == "Invalid destination path"
\* Not an outcome of the program: the call would allocate an object and the
\* bound MaxObj leaves no identity for it.  The actions exclude such calls.
NO_IDENTITY == "no free identity"

\* The loop of change_directory (lines 166-175).
RECURSIVE CdWalk(_, _, _)
CdWalk(h, folder, parts) ==
  IF parts = <<>> THEN [err |-> "", folder |-> folder]
  ELSE IF Head(parts) = <<DOTDOT>>
    THEN IF folder = Root THEN [err |-> AT_ROOT, folder |-> folder]
         ELSE CdWalk(h, find_parent(h, folder), Tail(parts))
  ELSE IF /\ HasKey(h[folder].contents, Head(parts))
          /\ IsFolder(h, Lookup(h[folder].contents, Head(parts)))
    THEN CdWalk(h, Lookup(h[folder].contents, Head(parts)), Tail(parts))
  ELSE [err |-> CD_INVALID, folder |-> folder]

\* FileSystem.change_directory
change_directory(h, c, path) ==
  IF path = <<SLASH>> THEN Ok(h, Root, None)
  ELSE LET w == CdWalk(h, IF StartsWithSlash(path) THEN Root ELSE c, Parts(path))
       IN  IF w.err # "" THEN Fail(h, c, w.err) ELSE Ok(h, w.folder, None)

\* Folder.list_contents / FileSystem.list_directory
list_directory(h, c) ==
  Ok(h, c, [i \in 1..Len(h[c].contents) |-> h[h[c].contents[i].v].name])

\* create_folder staying in the folder it has walked to.
create_folder_entering(h, c, path, name) ==
  LET nm == IF name = None THEN path ELSE name
      w  == IF name = None \/ path = None THEN [err |-> "", folder |-> c]
            ELSE Walk(h, IF StartsWithSlash(path) THEN Root ELSE c,
                      Parts(path), CD_INVALID)
      n  == NewId(h)
  IN  IF w.err # "" THEN Fail(h, c, w.err)
      ELSE IF HasKey(h[w.folder].contents, nm) THEN Fail(h, c, ALREADY_EXISTS)
      ELSE IF n = 0 THEN Fail(h, c, NO_IDENTITY)
      ELSE Ok(Add([h EXCEPT ![n] = NewFolder(nm)], w.folder, n), w.folder, None)

\* FileSystem.create_folder; path or name may be None, not both.
create_folder(h, c, path, name) ==
  LET nm == IF name = None THEN path ELSE name
      w  == IF name = None \/ path = None THEN [err |-> "", folder |-> c]
            ELSE Walk(h, IF StartsWithSlash(path) THEN Root ELSE c,
                      Parts(path), CD_INVALID)
      n  == NewId(h)
  IN  IF w.err # "" THEN Fail(h, c, w.err)
      ELSE IF HasKey(h[w.folder].contents, nm) THEN Fail(h, c, ALREADY_EXISTS)
      ELSE IF n = 0 THEN Fail(h, c, NO_IDENTITY)
      ELSE Ok(Add([h EXCEPT ![n] = NewFolder(nm)], w.folder, n), c, None)

\* create_file without the check of line 259: the name is assigned whether
\* or not the folder holds it.
create_file_overwriting(h, c, path, content) ==
  LET pp == Parts(path)
      filename == Last(pp)
      path_parts == Front(pp)
      w  == IF path_parts = <<>> THEN [err |-> "", folder |-> c]
            ELSE Walk(h, IF StartsWithSlash(path) THEN Root ELSE c,
                      path_parts, NO_FOLDER)
      n  == NewId(h)
  IN  IF w.err # "" THEN Fail(h, c, w.err)
      ELSE IF n = 0 THEN Fail(h, c, NO_IDENTITY)
      ELSE Ok([h EXCEPT ![n] = NewFile(filename, content),
                        ![w.folder].contents = DictSet(@, filename, n)], c, None)

\* FileSystem.create_file
create_file(h, c, path, content) ==
  LET pp == Parts(path)
      filename == Last(pp)
      path_parts == Front(pp)
      w  == IF path_parts = <<>> THEN [err |-> "", folder |-> c]
            ELSE Walk(h, IF StartsWithSlash(path) THEN Root ELSE c,
                      path_parts, NO_FOLDER)
      n  == NewId(h)
  IN  IF w.err # "" THEN Fail(h, c, w.err)
      ELSE IF HasKey(h[w.folder].contents, filename) THEN Fail(h, c, FILE_EXISTS)
      ELSE IF n = 0 THEN Fail(h, c, NO_IDENTITY)
      ELSE Ok([h EXCEPT ![n] = NewFile(filename, content),
                        ![w.folder].contents = DictSet(@, filename, n)], c, None)

\* FileSystem.read_file
read_file(h, c, path) ==
  LET pp == Parts(path)
      filename == Last(pp)
      w  == Walk(h, IF StartsWithSlash(path) THEN Root ELSE c, Front(pp), INVALID_PATH)
  IN  IF w.err # "" THEN Fail(h, c, w.err)
      ELSE IF ~HasKey(h[w.folder].contents, filename) THEN Fail(h, c, ITEM_NOT_FOUND)
      ELSE LET file == Lookup(h[w.folder].contents, filename)
           IN  IF h[file].kind = "File" THEN Ok(h, c, Read(h[file]))
               ELSE Fail(h, c, NOT_A_FILE)

\* Lines 299-313 and 316-328 of move, 346-360 and 363-375 of copy: the source
\* entry, and the destination folder with the destination name.
\* ResolveSource taking an empty last segment for the walked folder itself.
ResolveSource_base(h, c, source_path) ==
  LET sp == Parts(source_path)
      w  == Walk(h, IF StartsWithSlash(source_path) THEN Root ELSE c, Front(sp),
                 INVALID_SRC)
  IN  IF w.err # "" THEN [err |-> w.err, folder |-> w.folder, name |-> Last(sp), item |-> 0]
      ELSE IF Last(sp) = <<>>
        THEN [err |-> "", folder |-> w.folder, name |-> Last(sp), item |-> w.folder]
      ELSE IF ~HasKey(h[w.folder].contents, Last(sp))
        THEN [err |-> ITEM_NOT_FOUND, folder |-> w.folder, name |-> Last(sp), item |-> 0]
      ELSE [err |-> "", folder |-> w.folder, name |-> Last(sp),
            item |-> Lookup(h[w.folder].contents, Last(sp))]

ResolveSource(h, c, source_path) ==
  LET sp == Parts(source_path)
      w  == Walk(h, IF StartsWithSlash(source_path) THEN Root ELSE c, Front(sp),
                 INVALID_SRC)
  IN  IF w.err # "" THEN [err |-> w.err, folder |-> w.folder, name |-> Last(sp), item |-> 0]
      ELSE IF ~HasKey(h[w.folder].contents, Last(sp))
        THEN [err |-> ITEM_NOT_FOUND, folder |-> w.folder, name |-> Last(sp), item |-> 0]
      ELSE [err |-> "", folder |-> w.folder, name |-> Last(sp),
            item |-> Lookup(h[w.folder].contents, Last(sp))]

ResolveDest(h, c, destination_path) ==
  LET dp == Parts(destination_path)
      w  == Walk(h, IF StartsWithSlash(destination_path) THEN Root ELSE c, Front(dp),
                 INVALID_DST)
  IN  [err |-> w.err, folder |-> w.folder, name |-> Last(dp)]

\* move detaching the source (line 330) before the destination is walked.
move_detaching(h, c, source_path, destination_path) ==
  LET s == ResolveSource(h, c, source_path)
      d == ResolveDest(h, c, destination_path)
  IN  IF s.err # "" THEN Fail(h, c, s.err)
      ELSE LET h1 == Remove(h, s.folder, s.name)
               h2 == [h1 EXCEPT ![s.item].name = d.name]
           IN  IF d.err # "" THEN Fail(h1, c, d.err)
               ELSE Ok(Add(h2, d.folder, s.item), c, None)

\* FileSystem.move
move(h, c, source_path, destination_path) ==
  LET s == ResolveSource(h, c, source_path)
      d == ResolveDest(h, c, destination_path)
  IN  IF s.err # "" THEN Fail(h, c, s.err)
      ELSE IF d.err # "" THEN Fail(h, c, d.err)
      ELSE LET h1 == Remove(h, s.folder, s.name)
               h2 == [h1 EXCEPT ![s.item].name = d.name]
           IN  Ok(Add(h2, d.folder, s.item), c, None)

\* copy without line 381: the clone of a Folder starts empty.
copy_emptying(h, c, source_path, destination_path) ==
  LET s == ResolveSource(h, c, source_path)
      d == ResolveDest(h, c, destination_path)
      n == NewId(h)
  IN  IF s.err # "" THEN Fail(h, c, s.err)
      ELSE IF d.err # "" THEN Fail(h, c, d.err)
      ELSE IF n = 0 THEN Fail(h, c, NO_IDENTITY)
      ELSE LET new_item == IF h[s.item].kind = "File"
                             THEN NewFile(d.name, Read(h[s.item]))
                             ELSE NewFolder(d.name)
           IN  Ok(Add([h EXCEPT ![n] = new_item], d.folder, n), c, None)

\* FileSystem.copy
copy(h, c, source_path, destination_path) ==
  LET s == ResolveSource(h, c, source_path)
      d == ResolveDest(h, c, destination_path)
      n == NewId(h)
  IN  IF s.err # "" THEN Fail(h, c, s.err)
      ELSE IF d.err # "" THEN Fail(h, c, d.err)
      ELSE IF n = 0 THEN Fail(h, c, NO_IDENTITY)
      ELSE LET new_item == IF h[s.item].kind = "File"
                             THEN NewFile(d.name, Read(h[s.item]))
                             ELSE [NewFolder(d.name) EXCEPT
                                     !.contents = h[s.item].contents]
           IN  Ok(Add([h EXCEPT ![n] = new_item], d.folder, n), c, None)

\* delete raising when the final segment names no entry.
delete_strict(h, c, path) ==
  LET pp == Parts(path)
      w  == Walk(h, IF StartsWithSlash(path) THEN Root ELSE c, Front(pp), INVALID_PATH)
  IN  IF w.err # "" THEN Fail(h, c, w.err)
      ELSE IF ~HasKey(h[w.folder].contents, Last(pp)) THEN Fail(h, c, ITEM_NOT_FOUND)
      ELSE Ok(Remove(h, w.folder, Last(pp)), c, None)

\* FileSystem.delete
delete(h, c, path) ==
  LET pp == Parts(path)
      w  == Walk(h, IF StartsWithSlash(path) THEN Root ELSE c, Front(pp), INVALID_PATH)
  IN  IF w.err # "" THEN Fail(h, c, w.err)
      ELSE Ok(Remove(h, w.folder, Last(pp)), c, None)

\* rename without the remove of line 426.
rename_keeping(h, c, path, new_name) ==
  LET pp == Parts(path)
      name == Last(pp)
      w  == Walk(h, IF StartsWithSlash(path) THEN Root ELSE c, Front(pp), INVALID_PATH)
  IN  IF w.err # "" THEN Fail(h, c, w.err)
      ELSE IF ~HasKey(h[w.folder].contents, name) THEN Fail(h, c, ITEM_NOT_FOUND)
      ELSE LET item == Lookup(h[w.folder].contents, name)
               h2 == [h EXCEPT ![item].name = new_name]
           IN  Ok(Add(h2, w.folder, item), c, None)

\* FileSystem.rename
rename(h, c, path, new_name) ==
  LET pp == Parts(path)
      name == Last(pp)
      w  == Walk(h, IF StartsWithSlash(path) THEN Root ELSE c, Front(pp), INVALID_PATH)
  IN  IF w.err # "" THEN Fail(h, c, w.err)
      ELSE IF ~HasKey(h[w.folder].contents, name) THEN Fail(h, c, ITEM_NOT_FOUND)
      ELSE LET item == Lookup(h[w.folder].contents, name)
               h1 == Remove(h, w.folder, name)
               h2 == [h1 EXCEPT ![item].name = new_name]
           IN  Ok(Add(h2, w.folder, item), c, None)

\* File.append: the content becomes one more line of the file.
append(h, file, content) == [h EXCEPT ![file].data = Append(@, content)]

\* What a call that never ends leaves: an interpreter that exceeds its
\* recursion limit raises RecursionError; a loop that cannot leave does not
\* return at all.
RECURSION_ERROR == "RecursionError"
NO_RETURN == "does not return"

\* reversed(list)
Reverse(l) == [i \in 1..Len(l) |-> l[Len(l) + 1 - i]]

\* "/".join(parts), parts not empty
RECURSIVE SlashJoin(_)
SlashJoin(parts) ==
  IF Len(parts) = 1 THEN parts[1]
  ELSE parts[1] \o <<SLASH>> \o SlashJoin(Tail(parts))

\* str.endswith
EndsWith(s, suffix) ==
  /\ Len(suffix) <= Len(s)
  /\ SubSeq(s, Len(s) - Len(suffix) + 1, Len(s)) = suffix

\* The loop of get_full_path (lines 142-144): the names appended while the
\* folder is not the root.  The loop has no other exit: find_parent maps
\* folders to folders, so a loop that has not met the root after MaxObj
\* rounds is back at a folder it has seen and goes round for ever.
RECURSIVE PathParts(_, _, _)
PathParts(h, folder, rounds) ==
  IF folder = Root THEN [err |-> "", parts |-> <<>>]
  ELSE IF rounds = 0 THEN [err |-> NO_RETURN, parts |-> <<>>]
  ELSE LET up == PathParts(h, find_parent(h, folder), rounds - 1)
       IN  [err |-> up.err, parts |-> <<h[folder].name>> \o up.parts]

\* FileSystem.get_full_path
get_full_path(h, c) ==
  LET w == PathParts(h, c, MaxObj)
  IN  IF w.err # "" THEN Fail(h, c, w.err)
      ELSE Ok(h, c, SlashJoin(Reverse(w.parts \o <<h[Root].name>>)))

\* The test of search (line 448) or of search_by_extension (line 472) on
\* one entry of a folder's dict.
Matches(h, e, by, what) ==
  IF by = "name" THEN e.k = what
  ELSE h[e.v].kind = "File" /\ EndsWith(e.k, what)

\* The loop of search and of search_by_extension from entry i of folder on:
\* a match adds the full path of the cursor and the key, a Folder is
\* searched by a nested call.  depth is the number of nested calls left
\* before the nesting has gone round a cycle of folders, where it never
\* ends: the interpreter raises RecursionError.  The first call that fails
\* ends the search.
RECURSIVE SearchIn(_, _, _, _, _, _, _)
SearchIn(h, c, folder, by, what, i, depth) ==
  IF i > Len(h[folder].contents) THEN [err |-> "", val |-> <<>>]
  ELSE LET e == h[folder].contents[i]
           full == get_full_path(h, c)
           hit == IF ~Matches(h, e, by, what) THEN [err |-> "", val |-> <<>>]
                  ELSE IF full.err # "" THEN [err |-> full.err, val |-> <<>>]
                  ELSE [err |-> "", val |-> <<full.val \o <<SLASH>> \o e.k>>]
           sub == IF ~IsFolder(h, e.v) THEN [err |-> "", val |-> <<>>]
                  ELSE IF depth = 0 THEN [err |-> RECURSION_ERROR, val |-> <<>>]
                  ELSE SearchIn(h, c, e.v, by, what, 1, depth - 1)
           rest == SearchIn(h, c, folder, by, what, i + 1, depth)
       IN  IF hit.err # "" THEN hit
           ELSE IF sub.err # "" THEN sub
           ELSE IF rest.err # "" THEN rest
           ELSE [err |-> "", val |-> hit.val \o sub.val \o rest.val]

\* FileSystem.search
search(h, c, name) ==
  LET r == SearchIn(h, c, c, "name", name, 1, MaxObj)
  IN  IF r.err # "" THEN Fail(h, c, r.err) ELSE Ok(h, c, r.val)

\* FileSystem.search_by_extension
search_by_extension(h, c, extension) ==
  LET r == SearchIn(h, c, c, "extension", extension, 1, MaxObj)
  IN  IF r.err # "" THEN Fail(h, c, r.err) ELSE Ok(h, c, r.val)

(* ------------------------------ actions ------------------------------- *)

\* FileSystem.__init__
Init ==
  /\ heap = [i \in Ids |-> IF i = Root THEN NewFolder(ROOT_NAME) ELSE NoObj]
  /\ cur = Root
  /\ last = [op |-> "init", err |-> "", val |-> None]
  /\ steps = 0

\* One call: the state it leaves and what it raised or returned.
Call(op, o) ==
  /\ heap' = o.heap
  /\ cur' = o.cur
  /\ last' = [op |-> op, err |-> o.err, val |-> o.val]
  /\ steps' = steps + 1

\* A run makes MaxOps calls at most, and none after a call that does not
\* return.
MoreCalls == steps < MaxOps /\ last.err # NO_RETURN

\* A call that allocates an object needs a free identity.
CanAlloc(o) == o.err # NO_IDENTITY

ChangeDirectory(path) ==
  /\ MoreCalls
  /\ path \in Paths
  /\ Call("change_directory", change_directory(heap, cur, path))

ListDirectory ==
  /\ MoreCalls
  /\ Call("list_directory", list_directory(heap, cur))

\* The arguments of create_folder: a name alone (passed as path), or a path
\* (or None) with a name.
CreateFolderArgs ==
  {<<n, None>> : n \in Names} \cup ((Paths \cup {None}) \X Names)

CreateFolder(path, name) ==
  /\ MoreCalls
  /\ CanAlloc(create_folder(heap, cur, path, name))
  /\ Call("create_folder", create_folder(heap, cur, path, name))

CreateFile(path, content) ==
  /\ MoreCalls
  /\ CanAlloc(create_file(heap, cur, path, content))
  /\ Call("create_file", create_file(heap, cur, path, content))

ReadFile(path) ==
  /\ MoreCalls
  /\ path \in Paths
  /\ Call("read_file", read_file(heap, cur, path))

Move(src, dst) ==
  /\ MoreCalls
  /\ src \in Paths /\ dst \in Paths
  /\ Call("move", move(heap, cur, src, dst))

Copy(src, dst) ==
  /\ MoreCalls
  /\ CanAlloc(copy(heap, cur, src, dst))
  /\ Call("copy", copy(heap, cur, src, dst))

Delete(path) ==
  /\ MoreCalls
  /\ path \in Paths
  /\ Call("delete", delete(heap, cur, path))

Rename(path, new_name) ==
  /\ MoreCalls
  /\ path \in Paths /\ new_name \in Names
  /\ Call("rename", rename(heap, cur, path, new_name))

GetFullPath ==
  /\ MoreCalls
  /\ Call("get_full_path", get_full_path(heap, cur))

\* The extensions searched for: none, or one of the names.
Extensions == {<<>>} \cup Names

Search(name) ==
  /\ MoreCalls
  /\ name \in Names
  /\ Call("search", search(heap, cur, name))

SearchByExtension(extension) ==
  /\ MoreCalls
  /\ extension \in Extensions
  /\ Call("search_by_extension", search_by_extension(heap, cur, extension))

Find ==
  \/ GetFullPath
  \/ \E n \in Names : Search(n)
  \/ \E e \in Extensions : SearchByExtension(e)

Navigate ==
  \/ \E p \in Paths : ChangeDirectory(p)
  \/ ListDirectory

Create ==
  \/ \E a \in CreateFolderArgs : CreateFolder(a[1], a[2])
  \/ \E p \in Paths, c \in Contents : CreateFile(p, c)

\* Every public operation, in any order.
Next ==
  \/ Navigate
  \/ Create
  \/ \E p \in Paths : ReadFile(p)
  \/ \E s \in Paths, d \in Paths : Move(s, d)
  \/ \E s \in Paths, d \in Paths : Copy(s, d)
  \/ \E p \in Paths : Delete(p)
  \/ \E p \in Paths, n \in Names : Rename(p, n)
  \/ Find

Spec == Init /\ [][Next]_vars

\* The sequences of create_folder, create_file and delete (with navigation).
NextCreateDelete ==
  \/ Navigate
  \/ Create
  \/ \E p \in Paths : Delete(p)

SpecCreateDelete == Init /\ [][NextCreateDelete]_vars

(* --------------------------- tree relations --------------------------- *)

Allocated(h) == {i \in Ids : h[i].kind # "none"}
FolderIds(h) == {i \in Ids : IsFolder(h, i)}
Children(h, i) == Values(h[i].contents)

\* Everything reachable from the objects of S through child links, S included.
RECURSIVE ReachFrom(_, _)
ReachFrom(h, S) ==
  LET T == S \cup UNION {Children(h, i) : i \in S}
  IN  IF T = S THEN S ELSE ReachFrom(h, T)

Live(h) == ReachFrom(h, {Root})

\* The places (folder, position in its dict) where object i is a child.
Places(h, i) ==
  {<<f, n>> \in FolderIds(h) \X (1..MaxObj) :
     n <= Len(h[f].contents) /\ h[f].contents[n].v = i}

\* Two outcomes leave the same namespace state.
SameState(o, h, c) == o.heap = h /\ o.cur = c

(* -------------------------------- C1 ---------------------------------- *)

\* The destination leaf of move/copy names an entry of the destination parent
\* that is another object than the source entry.
Collides(h, c, s, d) ==
  LET rs == ResolveSource(h, c, s)
      rd == ResolveDest(h, c, d)
  IN  /\ rs.err = "" /\ rd.err = ""
      /\ HasKey(h[rd.folder].contents, rd.name)
      /\ Lookup(h[rd.folder].contents, rd.name) # rs.item

\* new_name names a sibling that is another object than the entry renamed.
RenameCollides(h, c, p, n) ==
  LET rs == ResolveSource(h, c, p)
  IN  /\ rs.err = ""
      /\ HasKey(h[rs.folder].contents, n)
      /\ Lookup(h[rs.folder].contents, n) # rs.item

\* C1: in every reachable state, a move, copy or rename whose destination leaf
\* names another entry already in the destination parent fails with an error
\* and leaves the heap (so the entry stored under that name) unchanged.
C1_CollisionRejected ==
  /\ \A s \in Paths, d \in Paths :
       Collides(heap, cur, s, d) =>
         /\ move(heap, cur, s, d).err # "" /\ SameState(move(heap, cur, s, d), heap, cur)
         /\ copy(heap, cur, s, d).err # "" /\ SameState(copy(heap, cur, s, d), heap, cur)
  /\ \A p \in Paths, n \in Names :
       RenameCollides(heap, cur, p, n) =>
         /\ rename(heap, cur, p, n).err # ""
         /\ SameState(rename(heap, cur, p, n), heap, cur)

(* -------------------------------- C2 ---------------------------------- *)

\* C2: no folder contains itself, directly or transitively: following child
\* links from a folder's children never leads back to the folder.
C2_NoFolderContainsItself ==
  \A f \in FolderIds(heap) : f \notin ReachFrom(heap, Children(heap, f))

(* -------------------------------- C3 ---------------------------------- *)

\* C3: the cursor is the root or is reachable from the root through child links.
C3_CursorLive == cur \in Live(heap)

(* -------------------------------- C4 ---------------------------------- *)

\* Exclusive ownership: every non-root entry reachable from the root is a
\* child at exactly one place (one folder, one name).
ExclusiveOwnership(h) ==
  \A i \in Live(h) \ {Root} : Cardinality(Places(h, i)) = 1

\* C4 (as claimed): after any sequence of public operations every non-root
\* entry reachable from the root is a child of exactly one folder, under one name.
C4_ExclusiveOwnership == ExclusiveOwnership(heap)

\* No entry is a child at two places.
SingleOwner(h) ==
  \A i \in Allocated(h) \ {Root} : Cardinality(Places(h, i)) <= 1

\* The step is a copy of a Folder that has children: the only call that
\* allocates a Folder with a non-empty dict.
CopiesChildren ==
  \E i \in Ids : /\ heap[i].kind = "none"
                 /\ heap'[i].kind = "Folder"
                 /\ heap'[i].contents # <<>>

\* C4 (amended): no entry is a child at two places initially, and every call
\* other than the copy of a Folder that has children keeps it so; hence, as
\* long as no Folder with children was copied, every non-root entry reachable
\* from the root is a child of exactly one folder, under one name.
C4_OwnershipPreserved ==
  /\ SingleOwner(heap)
  /\ [][(SingleOwner(heap) /\ ~CopiesChildren) => SingleOwner(heap')]_vars

\* A move has re-attached an entry in a tree of two entries or more, and a
\* File copy or an empty Folder copy is among the calls that keep one owner.
C4_Witness ==
  /\ last.op = "move" /\ last.err = ""
  /\ Cardinality(Live(heap)) >= 3
  /\ SingleOwner(heap)

(* -------------------------------- C5 ---------------------------------- *)

\* C5: the root is a Folder named "root" and is a child of no folder.
C5_RootIntact ==
  /\ heap[Root].kind = "Folder"
  /\ heap[Root].name = ROOT_NAME
  /\ \A f \in FolderIds(heap) : Root \notin Children(heap, f)

\* A rename or a move has succeeded on a populated tree and the root is intact.
C5_Witness ==
  /\ last.op \in {"rename", "move"} /\ last.err = ""
  /\ heap[Root].contents # <<>>
  /\ heap[Root].name = ROOT_NAME

(* -------------------------------- C6 ---------------------------------- *)

\* In every folder the children have pairwise different names (and keys).
UniqueNames(h) ==
  \A f \in FolderIds(h) :
    \A m, n \in 1..Len(h[f].contents) :
      m # n => /\ h[f].contents[m].k # h[f].contents[n].k
               /\ h[h[f].contents[m].v].name # h[h[f].contents[n].v].name

\* The folder and name a create_folder call targets (lines 213-228).
FolderTarget(h, c, path, name) ==
  [w    |-> IF name = None \/ path = None THEN [err |-> "", folder |-> c]
            ELSE Walk(h, IF StartsWithSlash(path) THEN Root ELSE c,
                      Parts(path), CD_INVALID),
   name |-> IF name = None THEN path ELSE name]

\* The folder and name a create_file call targets (lines 248-257).
FileTarget(h, c, path) ==
  [w    |-> IF Front(Parts(path)) = <<>> THEN [err |-> "", folder |-> c]
            ELSE Walk(h, IF StartsWithSlash(path) THEN Root ELSE c,
                      Front(Parts(path)), NO_FOLDER),
   name |-> Last(Parts(path))]

Taken(h, t) == t.w.err = "" /\ HasKey(h[t.w.folder].contents, t.name)

\* C6: over the sequences of create_folder, create_file and delete, no folder
\* holds two children of one name, and a create_folder or create_file whose
\* target name is taken in the target folder fails and changes nothing.
C6_UniqueNamesOnCreate ==
  /\ UniqueNames(heap)
  /\ \A a \in CreateFolderArgs :
       Taken(heap, FolderTarget(heap, cur, a[1], a[2])) =>
         /\ create_folder(heap, cur, a[1], a[2]).err # ""
         /\ SameState(create_folder(heap, cur, a[1], a[2]), heap, cur)
  /\ \A p \in Paths, c \in Contents :
       Taken(heap, FileTarget(heap, cur, p)) =>
         /\ create_file(heap, cur, p, c).err # ""
         /\ SameState(create_file(heap, cur, p, c), heap, cur)

\* A create_file on a taken name has been refused, next to a refused
\* create_folder being possible in the same folder.
C6_Witness ==
  /\ last.op = "create_file" /\ last.err = FILE_EXISTS
  /\ \E a \in CreateFolderArgs : Taken(heap, FolderTarget(heap, cur, a[1], a[2]))

(* -------------------------------- C7 ---------------------------------- *)

\* C7: a call that ends in an error leaves the heap and the cursor as they were.
C7_ErrorsChangeNothing ==
  [][last'.err # "" => (heap' = heap /\ cur' = cur)]_vars

\* A move has failed on its destination after its source resolved.
C7_Witness ==
  /\ last.op = "move" /\ last.err = INVALID_DST
  /\ heap[Root].contents # <<>>

(* -------------------------------- C8 ---------------------------------- *)

\* C8: in every reachable state, for every path and content, a create_file
\* that succeeds followed by read_file of the same path returns the content.
C8_ReadBack ==
  \A p \in Paths, c \in Contents :
    LET o == create_file(heap, cur, p, c)
    IN  o.err = "" =>
          LET r == read_file(o.heap, o.cur, p)
          IN  r.err = "" /\ r.val = c

(* -------------------------------- C9 ---------------------------------- *)

\* A name a path segment can stand for: one token, neither "/" nor "..".
PlainKey(k) == Len(k) = 1 /\ k[1] \notin {SLASH, DOTDOT}

\* The key sequences, n keys at most, that descend from folder f through folders.
RECURSIVE ChainsFrom(_, _, _)
ChainsFrom(h, f, n) ==
  {<<>>} \cup
    (IF n = 0 THEN {}
     ELSE UNION {{<<h[f].contents[i].k>> \o t :
                    t \in ChainsFrom(h, h[f].contents[i].v, n - 1)} :
                 i \in {j \in 1..Len(h[f].contents) :
                          /\ IsFolder(h, h[f].contents[j].v)
                          /\ PlainKey(h[f].contents[j].k)}})

\* "/".join(keys)
RECURSIVE PathOf(_)
PathOf(keys) ==
  IF Len(keys) = 1 THEN keys[1] ELSE keys[1] \o <<SLASH>> \o PathOf(Tail(keys))

\* change_directory("..") n times.
RECURSIVE UpN(_, _, _)
UpN(h, c, n) ==
  IF n = 0 THEN Ok(h, c, None)
  ELSE LET o == change_directory(h, c, <<DOTDOT>>)
       IN  IF o.err # "" THEN o ELSE UpN(h, o.cur, n - 1)

\* C9: for every folder path p of depth d that exists under the root,
\* change_directory("/"), change_directory(p), then d times
\* change_directory("..") raise nothing and end at the root; and from a live
\* cursor change_directory("..") goes to a folder that holds the cursor's
\* folder, raising only at the root.
C9_RoundTrip ==
  /\ \A keys \in ChainsFrom(heap, Root, MaxObj) \ {<<>>} :
       LET o0 == change_directory(heap, cur, <<SLASH>>)
           o1 == change_directory(heap, o0.cur, PathOf(keys))
           o2 == UpN(heap, o1.cur, Len(keys))
       IN  o0.err = "" /\ o1.err = "" /\ o2.err = "" /\ o2.cur = Root
  /\ LET up == change_directory(heap, cur, <<DOTDOT>>)
     IN  cur \in Live(heap) =>
           IF cur = Root THEN up.err = AT_ROOT
           ELSE up.err = "" /\ cur \in Children(heap, up.cur)

(* -------------------------------- C10 --------------------------------- *)

\* C10: a ".." segment in a read_file path ascends as in change_directory:
\* where change_directory("..") takes the cursor to folder P and read_file of
\* the name n from P returns a content, read_file of "../n" from the cursor
\* returns that content.
C10_DotDotInReadFile ==
  LET up == change_directory(heap, cur, <<DOTDOT>>)
  IN  up.err = "" =>
        \A n \in Names :
          LET want == read_file(heap, up.cur, n)
              got  == read_file(heap, cur, <<DOTDOT, SLASH>> \o n)
          IN  want.err = "" => (got.err = "" /\ got.val = want.val)

(* -------------------------------- C11 --------------------------------- *)

\* The entry i of heap h1 and the entry j of heap h2 are structurally equal:
\* the same kind, the same content, the same children under the same keys.
SameEntry(h1, i, h2, j) ==
  /\ h1[i].kind = h2[j].kind
  /\ Read(h1[i]) = Read(h2[j])
  /\ h1[i].contents = h2[j].contents

\* C11: whenever move(src, dst) succeeds, dst resolves afterwards to an entry
\* with the content and the children the entry at src had before, and src no
\* longer resolves; dst equal to src and dst inside the folder src included.
C11_MoveRelocates ==
  \A s \in Paths, d \in Paths :
    LET before == ResolveSource(heap, cur, s)
        o == move(heap, cur, s, d)
        at_dst == ResolveSource(o.heap, o.cur, d)
        at_src == ResolveSource(o.heap, o.cur, s)
    IN  o.err = "" =>
          /\ at_dst.err = ""
          /\ SameEntry(o.heap, at_dst.item, heap, before.item)
          /\ at_src.err # ""

(* -------------------------------- C12 --------------------------------- *)

\* C12: whenever copy(src, dst) succeeds, src resolves afterwards to the same
\* entry, with the name, the content and the children it had before (dst
\* equal to src and dst inside the folder src included); and when the entry
\* is a File, appending to the File at dst leaves what read_file(src) returns
\* unchanged.
C12_CopyLeavesSource ==
  \A s \in Paths, d \in Paths :
    LET before == ResolveSource(heap, cur, s)
        o == copy(heap, cur, s, d)
        after == ResolveSource(o.heap, o.cur, s)
        at_dst == ResolveSource(o.heap, o.cur, d)
        appended == append(o.heap, at_dst.item, <<"x">>)
    IN  o.err = "" =>
          /\ after.err = ""
          /\ after.item = before.item
          /\ o.heap[after.item].name = heap[before.item].name
          /\ SameEntry(o.heap, after.item, heap, before.item)
          /\ heap[before.item].kind = "File" =>
               /\ at_dst.err = ""
               /\ o.heap[at_dst.item].kind = "File"
               /\ read_file(appended, o.cur, s).err = ""
               /\ read_file(appended, o.cur, s).val = read_file(heap, cur, s).val

(* -------------------------------- C13 --------------------------------- *)

\* C13: the copy of a Folder stores at the destination a new Folder whose
\* dict is its own and holds the objects the source holds, under the same
\* keys: Folder.add and Folder.remove on the clone leave the source's
\* children as they are, and a change made to a child of the source (an
\* append to a File, an entry added inside a Folder) is the same change of
\* the clone's child.
C13_ShallowFolderCopy ==
  \A s \in Paths :
    LET src == ResolveSource(heap, cur, s)
    IN  (src.err = "" /\ IsFolder(heap, src.item)) =>
          \A d \in Paths :
            LET o == copy(heap, cur, s, d)
                rd == ResolveDest(heap, cur, d)
                clone == Lookup(o.heap[rd.folder].contents, rd.name)
                olds == heap[src.item].contents
            IN  o.err = "" =>
                  /\ clone \notin Allocated(heap)
                  /\ IsFolder(o.heap, clone)
                  /\ o.heap[clone].contents = olds
                  /\ \A x \in Allocated(o.heap) :
                       Add(o.heap, clone, x)[src.item].contents =
                         o.heap[src.item].contents
                  /\ \A k \in Keys(olds) :
                       /\ Remove(o.heap, clone, k)[src.item].contents =
                            o.heap[src.item].contents
                       /\ LET child == Lookup(olds, k)
                              h2 == IF IsFolder(o.heap, child)
                                      THEN Add(o.heap, child, Root)
                                      ELSE append(o.heap, child, <<"x">>)
                          IN  /\ h2[child] # o.heap[child]
                              /\ h2[Lookup(h2[clone].contents, k)] = h2[child]
                              /\ Lookup(o.heap[src.item].contents, k) = child =>
                                   h2[Lookup(h2[src.item].contents, k)] = h2[child]

\* A Folder with a child has been copied: two folders hold the same object.
C13_Witness ==
  /\ last.op = "copy" /\ last.err = ""
  /\ \E f \in FolderIds(heap), g \in FolderIds(heap) :
       /\ f # g
       /\ heap[f].contents # <<>>
       /\ heap[f].contents = heap[g].contents

(* -------------------------------- C14 --------------------------------- *)

\* The tree is well formed: no folder inside itself, no entry at two places,
\* the cursor reachable from the root.
WellFormed(h, c) ==
  /\ \A f \in FolderIds(h) : f \notin ReachFrom(h, Children(h, f))
  /\ SingleOwner(h)
  /\ c \in Live(h)

\* In a well-formed tree: the folder that holds the entry i, and the full
\* path of i, the names from the root down to i joined by "/".
Parent(h, i) == CHOOSE f \in FolderIds(h) : i \in Children(h, f)

RECURSIVE FullPathOf(_, _)
FullPathOf(h, i) ==
  IF i = Root THEN h[Root].name
  ELSE FullPathOf(h, Parent(h, i)) \o <<SLASH>> \o h[i].name

\* The entries below the folder c that are called name.
Named(h, c, name) == {i \in ReachFrom(h, Children(h, c)) : h[i].name = name}

\* C14: in a well-formed tree search(name) returns one string for each entry
\* below the cursor whose name is name, and each string is the full path of
\* its entry: with root/a/x and root/a/b/x and the cursor on the root,
\* search("x") returns root/a/x and root/a/b/x.
C14_SearchFullPaths ==
  WellFormed(heap, cur) =>
    \A n \in Names :
      LET o == search(heap, cur, n)
      IN  /\ o.err = ""
          /\ Len(o.val) = Cardinality(Named(heap, cur, n))
          /\ {o.val[j] : j \in 1..Len(o.val)} =
               {FullPathOf(heap, i) : i \in Named(heap, cur, n)}

(* -------------------------------- C15 --------------------------------- *)

\* C15: in every reachable state every operation ends: the loop of
\* get_full_path reaches the root, and the nested calls of search and of
\* search_by_extension come to an end and return their results.  (The other
\* operations loop over the segments of their path argument only.)
C15_Terminates ==
  /\ get_full_path(heap, cur).err = ""
  /\ \A n \in Names : search(heap, cur, n).err = ""
  /\ \A e \in Extensions : search_by_extension(heap, cur, e).err = ""

(* -------------------------------- C16 --------------------------------- *)

\* C16: delete(path) whose intermediate segments resolve and whose final
\* segment names no entry raises nothing and changes nothing, so a delete
\* repeated with its segments still resolving does what one delete did; when
\* an intermediate segment is absent or names a File, delete raises an error
\* (and changes nothing); and when the final segment names an entry, that
\* entry alone is removed from its parent: every other folder's children,
\* and the parent's other children, stay.
C16_DeleteIdempotent ==
  \A p \in Paths :
    LET base == IF StartsWithSlash(p) THEN Root ELSE cur
        w == Walk(heap, base, Front(Parts(p)), INVALID_PATH)
        name == Last(Parts(p))
        o == delete(heap, cur, p)
        w2 == Walk(o.heap, base, Front(Parts(p)), INVALID_PATH)
        again == delete(o.heap, o.cur, p)
    IN  /\ w.err # "" => (o.err # "" /\ SameState(o, heap, cur))
        /\ w.err = "" =>
             /\ o.err = "" /\ o.cur = cur
             /\ ~HasKey(heap[w.folder].contents, name) => o.heap = heap
             /\ \A i \in Ids :
                  o.heap[i] =
                    IF i = w.folder
                      THEN [heap[i] EXCEPT
                              !.contents = SelectSeq(@, LAMBDA e : e.k # name)]
                      ELSE heap[i]
             /\ ~HasKey(o.heap[w.folder].contents, name)
             /\ w2.err = "" => (again.err = "" /\ SameState(again, o.heap, o.cur))
             /\ w2.err # "" => (again.err # "" /\ SameState(again, o.heap, o.cur))

\* A delete has removed an entry from a folder that keeps another one: the
\* removed entry is a child nowhere.
C16_Witness ==
  /\ last.op = "delete" /\ last.err = ""
  /\ heap[Root].contents # <<>>
  /\ \E i \in Allocated(heap) \ {Root} : Places(heap, i) = {}

(* -------------------------------- C17 --------------------------------- *)

\* The names of the folders met from folder f down the keys.
RECURSIVE NamesAlong(_, _, _)
NamesAlong(h, f, keys) ==
  IF keys = <<>> THEN <<>>
  ELSE LET g == Lookup(h[f].contents, Head(keys))
       IN  <<h[g].name>> \o NamesAlong(h, g, Tail(keys))

\* C17: for a cursor that change_directory has placed on a folder at any
\* depth (three or more included), get_full_path returns the names of the
\* folders from the root down to the cursor's folder, joined by "/".
C17_FullPathOfCursor ==
  \A keys \in ChainsFrom(heap, Root, MaxObj) :
    LET o == change_directory(heap, cur, <<SLASH>> \o
                                (IF keys = <<>> THEN <<>> ELSE PathOf(keys)))
        full == get_full_path(o.heap, o.cur)
    IN  /\ o.err = ""
        /\ full.err = ""
        /\ full.val = SlashJoin(<<heap[Root].name>> \o NamesAlong(heap, Root, keys))

(* -------------------------------- C18 --------------------------------- *)

\* C18: only change_directory moves the cursor: every call of
\* list_directory, create_folder, create_file, read_file, delete, rename,
\* move, copy, get_full_path, search and search_by_extension leaves the
\* cursor on the folder it was on.
C18_OnlyCdMovesCursor ==
  [][last'.op # "change_directory" => cur' = cur]_vars

\* A move has succeeded with the cursor on a folder other than the root.
C18_Witness ==
  /\ last.op = "move" /\ last.err = ""
  /\ cur # Root

(* -------------------------------- C19 --------------------------------- *)

\* C19: a path that is empty or made of "/" only has no segments and stands
\* for the base folder: change_directory("") raises nothing and leaves the
\* cursor where it is; change_directory("//") does what
\* change_directory("/") does, raising nothing and putting the cursor on the
\* root.
C19_EmptyPathIsBase ==
  LET empty == change_directory(heap, cur, <<>>)
      slashes == change_directory(heap, cur, <<SLASH, SLASH>>)
      slash == change_directory(heap, cur, <<SLASH>>)
  IN  /\ empty.err = "" /\ empty.cur = cur
      /\ slash.err = "" /\ slash.cur = Root
      /\ slashes.err = "" /\ slashes.cur = Root

(* -------------------------------- C20 --------------------------------- *)

\* Every child of every folder is stored under the key that is its name; so
\* list_directory on any folder returns no name twice, and each name it
\* returns is a key of the folder, leading to the entry of that name.
KeysAreNames(h) ==
  \A f \in FolderIds(h) :
    LET names == list_directory(h, f).val
    IN  /\ \A i \in 1..Len(h[f].contents) :
             h[f].contents[i].k = h[h[f].contents[i].v].name
        /\ \A i \in 1..Len(names), j \in 1..Len(names) :
             names[i] = names[j] => i = j
        /\ \A i \in 1..Len(names) :
             /\ HasKey(h[f].contents, names[i])
             /\ h[Lookup(h[f].contents, names[i])].name = names[i]

\* C20: after any sequence of calls, a rename or a move that follows a folder
\* copy included, each child is stored in its parent under a key equal to
\* its name, list_directory returns no name twice and each name it returns
\* resolves to its entry.
C20_KeysAreNames ==
  /\ KeysAreNames(heap)
  /\ \A p \in Paths, n \in Names : KeysAreNames(rename(heap, cur, p, n).heap)
  /\ \A s \in Paths, d \in Paths : KeysAreNames(move(heap, cur, s, d).heap)

====
